---- MODULE Spec2Model ----
(***************************************************************************)
(* Rally segmentation engine of the badminton analyzer                     *)
(* (backend/app/core/rally_segmentation.py) and the seeding done by the    *)
(* analysis pipeline (backend/app/api/analysis.py).                        *)
(*                                                                         *)
(* Frames are integers.  Motion scores are naturals (a count of pixels).   *)
(* The smoothed series, its mean and its standard deviation are rationals  *)
(* and are compared exactly.  The times of the time-based fallback are     *)
(* counted in ticks of 1/UnitRes second, the resolution of the random      *)
(* generator of the model, so that int(time * fps) truncates as in the     *)
(* code.                                                                   *)
(***************************************************************************)
EXTENDS Integers, Sequences, FiniteSets, TLC

\* ------------------------------------------------------------ bounds
\* frame rates the container reports: 0 (unknown) .. MaxFps
MaxFps == 2
\* most frames the frame source yields
MaxRead == 12
\* frames the container reports beyond those it yields, when truncated
TruncFrames == 12
\* the non-zero motion score of a sampled frame
HighMotion == 1
\* values random.random() takes: u / UnitRes for u in 0 .. UnitRes - 1
UnitRes == 4
\* high and near-zero scores of the synthetic alternating series
SynthHigh == 20
NearZero == 1
\* frames of the long source handed to segment_rallies
LongFrames == 300
\* period of the generator streams that are known in full
TapePeriod == 3

\* ------------------------------------------------------------ constants
MIN_RALLY_DURATION == 2
IDLE_THRESHOLD == 3
DefaultFps == 30
MinSamples == 10
SamplesPerSecond == 5
SkipSeconds == 2
TailSeconds == 5
ShortVideoSeconds == 300
MinGapSeconds == 3
MaxGapSeconds == 10
\* Python's None, for idle_start
None == 0 - 1

Max(a, b) == IF a >= b THEN a ELSE b
Min(a, b) == IF a <= b THEN a ELSE b

\* ------------------------------------------------------------ exact arithmetic
\* Naturals beyond the machine word, as little-endian sequences of base-10000
\* limbs: the squared deviations of the smoothed series need them.
RECURSIVE ToLimbs(_)
ToLimbs(n) ==
    IF n < 10000 THEN <<n>> ELSE <<n % 10000>> \o ToLimbs(n \div 10000)

RECURSIVE LimbsAdd(_, _, _)
LimbsAdd(a, b, carry) ==
    IF a = <<>> /\ b = <<>>
    THEN IF carry = 0 THEN <<>> ELSE <<carry>>
    ELSE LET x == IF a = <<>> THEN 0 ELSE Head(a)
             y == IF b = <<>> THEN 0 ELSE Head(b)
             s == x + y + carry
         IN  <<s % 10000>> \o LimbsAdd(IF a = <<>> THEN <<>> ELSE Tail(a),
                                       IF b = <<>> THEN <<>> ELSE Tail(b),
                                       s \div 10000)

RECURSIVE LimbsScale(_, _, _)
LimbsScale(a, k, carry) ==
    IF a = <<>>
    THEN IF carry = 0 THEN <<>> ELSE ToLimbs(carry)
    ELSE LET s == Head(a) * k + carry
         IN  <<s % 10000>> \o LimbsScale(Tail(a), k, s \div 10000)

RECURSIVE LimbsMul(_, _)
LimbsMul(a, b) ==
    IF a = <<>> THEN <<>>
    ELSE LimbsAdd(LimbsScale(b, Head(a), 0), <<0>> \o LimbsMul(Tail(a), b), 0)

\* -1, 0 or 1 as a is below, equal to or above b
RECURSIVE LimbsCmp(_, _)
LimbsCmp(a, b) ==
    IF a = <<>> /\ b = <<>> THEN 0
    ELSE LET x == IF a = <<>> THEN 0 ELSE Head(a)
             y == IF b = <<>> THEN 0 ELSE Head(b)
             r == LimbsCmp(IF a = <<>> THEN <<>> ELSE Tail(a),
                           IF b = <<>> THEN <<>> ELSE Tail(b))
         IN  IF r # 0 THEN r ELSE IF x < y THEN 0 - 1 ELSE IF x > y THEN 1 ELSE 0

Abs(d) == IF d < 0 THEN 0 - d ELSE d
Square(d) == LimbsMul(ToLimbs(Abs(d)), ToLimbs(Abs(d)))

RECURSIVE Gcd(_, _)
Gcd(a, b) == IF b = 0 THEN a ELSE Gcd(b, a % b)
Lcm(a, b) == (a \div Gcd(a, b)) * b

\* ------------------------------------------------------------ frame source
\* cv2 reports fps 0 for an unknown rate: the constructor substitutes 30
EffectiveFps(raw) == IF raw = 0 THEN DefaultFps ELSE raw

\* sample_interval = max(1, int(fps / 5))
\* every frame sampled
sample_interval_PerFrame(f) == 1

\* sample_interval = max(1, int(self.fps / 5))
sample_interval(f) == Max(1, f \div SamplesPerSecond)

\* samples of a pass that reads `frames` frames: one per frame whose index is a
\* positive multiple of the interval (frame 0 has no predecessor)
SampleCount(frames, f) ==
    IF frames = 0 THEN 0 ELSE (frames - 1) \div sample_interval(f)

\* analyze_motion: the series of one pass over the source; a time is the
\* fraction <<frame, fps>>
AnalyzeMotion(frames, score, f) ==
    [k \in 1..SampleCount(frames, f) |->
        [frame |-> k * sample_interval(f),
         time |-> <<k * sample_interval(f), f>>,
         motion |-> score[k]]]

\* a pass cut short that keeps none of its samples
PassResult_Dropped(local) == <<>>

\* self.motion_data = motion_data, once read() has failed
PassResult(local) == local

\* ------------------------------------------------------------ smoothing
\* window_size = max(5, int(fps / 2))
window_size(f) == Max(5, f \div 2)

\* rolling(window, center=True, min_periods=1): the rows of the window of row i
WindowLo(i, w) == Max(1, i + ((w - 1) \div 2) - w + 1)
WindowHi(i, w, n) == Min(n, i + ((w - 1) \div 2))

\* the sums below split their range in halves to stay shallow
RECURSIVE SumMotion(_, _, _)
SumMotion(md, lo, hi) ==
    IF lo > hi THEN 0
    ELSE IF lo = hi THEN md[lo].motion
    ELSE SumMotion(md, lo, (lo + hi) \div 2) + SumMotion(md, ((lo + hi) \div 2) + 1, hi)

\* motion_smooth, row i, as the fraction num / den
motion_smooth(md, w) ==
    [i \in 1..Len(md) |->
        [num |-> SumMotion(md, WindowLo(i, w), WindowHi(i, w, Len(md))),
         den |-> WindowHi(i, w, Len(md)) - WindowLo(i, w) + 1]]

\* ------------------------------------------------------------ thresholds
RECURSIVE LcmDen(_, _, _)
LcmDen(sm, lo, hi) ==
    IF lo > hi THEN 1
    ELSE IF lo = hi THEN sm[lo].den
    ELSE Lcm(LcmDen(sm, lo, (lo + hi) \div 2), LcmDen(sm, ((lo + hi) \div 2) + 1, hi))

RECURSIVE SumSeq(_, _, _)
SumSeq(s, lo, hi) ==
    IF lo > hi THEN 0
    ELSE IF lo = hi THEN s[lo]
    ELSE SumSeq(s, lo, (lo + hi) \div 2) + SumSeq(s, ((lo + hi) \div 2) + 1, hi)

RECURSIVE SumSquares(_, _, _)
SumSquares(d, lo, hi) ==
    IF lo > hi THEN <<>>
    ELSE IF lo = hi THEN Square(d[lo])
    ELSE LimbsAdd(SumSquares(d, lo, (lo + hi) \div 2),
                  SumSquares(d, ((lo + hi) \div 2) + 1, hi), 0)

\* The smoothed values on their common denominator K, and n times their
\* deviations from the mean: dev[i] = n * K * (motion_smooth[i] - mean).
Deviations(sm) ==
    LET n == Len(sm)
        K == LcmDen(sm, 1, n)
        a == [i \in 1..n |-> sm[i].num * (K \div sm[i].den)]
        total == SumSeq(a, 1, n)
    IN  [i \in 1..n |-> n * a[i] - total]

\* the distance from the mean compared, its sign forgotten
IsActive_NoSign(d, n, ss) ==
    LimbsCmp(LimbsScale(Square(d), 4 * (n - 1), 0), ss) = 1

\* motion_smooth > motion_mean + motion_std * 0.5, with std the sample
\* standard deviation (pandas, ddof = 1):  d > 0 and 4 (n-1) d^2 > sum d^2
IsActive(d, n, ss) ==
    d > 0 /\ LimbsCmp(LimbsScale(Square(d), 4 * (n - 1), 0), ss) = 1

\* motion_smooth < motion_mean - motion_std * 0.3:
\* d < 0 and 100 (n-1) d^2 > 9 sum d^2
IsIdle(d, n, ss) ==
    d < 0 /\ LimbsCmp(LimbsScale(Square(d), 100 * (n - 1), 0),
                      LimbsScale(ss, 9, 0)) = 1

\* the columns df['active'] and df['idle']
Classify(sm) ==
    LET n == Len(sm)
        dev == Deviations(sm)
        ss == SumSquares(dev, 1, n)
    IN  [active |-> [i \in 1..n |-> IsActive(dev[i], n, ss)],
         idle |-> [i \in 1..n |-> IsIdle(dev[i], n, ss)]]

\* ------------------------------------------------------------ boundary detector
min_rally_frames(f) == MIN_RALLY_DURATION * f
idle_threshold_frames(f) == IDLE_THRESHOLD * f

\* a rally begun by any sample that is not idle
StartsRally_NotIdle(isActive, isIdle) == ~isIdle

\* if row['active'], for a sample seen between rallies
StartsRally(isActive, isIdle) == isActive

\* a wrong sample count in the test for a usable series
TooFew_Five(md) == Len(md) < 5

\* len(self.motion_data) < 10
TooFewSamples(md) == Len(md) < MinSamples

\* an idle run that ends the rally on reaching the threshold
IdlePersisted_AtLeast(frame, istart, f) == frame - istart >= idle_threshold_frames(f)

\* frame - idle_start > idle_threshold_frames
IdlePersisted(frame, istart, f) == frame - istart > idle_threshold_frames(f)

\* the minimum-duration test left out
LongEnough_Always(frame, rstart, f) == TRUE

\* frame - rally_start > min_rally_frames, the test before a segment is kept
LongEnough(frame, rstart, f) == frame - rstart > min_rally_frames(f)

\* the segment appended when the idle run has persisted
ClosedSegment(rstart, istart, frame) == <<rstart, istart>>

\* the rally still open at the end of the series cut at its pending idle run
OpenSegment_AtIdle(rstart, istart, last) ==
    IF istart # None THEN <<rstart, istart>> ELSE <<rstart, last>>

\* the segment appended for a rally still open at the end of the series
OpenSegment(rstart, istart, last) == <<rstart, last>>

\* idle_start kept across motion: no debounce
IdleStart_Kept(istart) == istart

\* idle_start after a non-idle sample seen in a rally
IdleStartAfterMotion(istart) == None

\* an empty detection returned as it is
NoRallies_Never(segs) == FALSE

\* if not rally_segments
NoRallies(segs) == segs = <<>>

\* ------------------------------------------------------------ fallback
\* random.uniform(a, b) = a + (b - a) * random(), in ticks, for random() = u / UnitRes
Uniform(a, b, u) == a * UnitRes + (b - a) * u

\* every video taken for a short one
avg_rally_duration_Short(fc, f) == 15

avg_rally_duration(fc, f) == IF fc < ShortVideoSeconds * f THEN 15 ELSE 25

RallyTicks(fc, f, u) ==
    Uniform(Max(5, avg_rally_duration(fc, f) - 10),
            Min(45, avg_rally_duration(fc, f) + 15), u)

GapTicks(u) == Uniform(MinGapSeconds, MaxGapSeconds, u)

\* int(t * fps) for a time of t ticks
FrameAt(ticks, f) == (ticks * f) \div UnitRes

\* current_time < self.duration - 5, with duration = frame_count / fps
MoreTime(ticks, fc, f) == ticks * f < UnitRes * (fc - TailSeconds * f)

\* a segment allowed to end on frame_count
PastEnd_Strict(endf, fc) == endf > fc

\* end_frame >= self.frame_count
PastEnd(endf, fc) == endf >= fc

\* the rally's own length left out of the advance
NextTime_GapOnly(ticks, rd, gap) == ticks + gap

\* current_time += rally_duration + gap
NextTime(ticks, rd, gap) == ticks + rd + gap

\* ------------------------------------------------------------ random generator
\* The generator is a deterministic function of its seed: `tape` holds the
\* values the current seed's stream has been found to produce, `pos` the number
\* of values consumed since seeding.  A value beyond the tape is any unit.
Units == 0..(UnitRes - 1)

\* A value consumed without being looked at is a hole (None) in the tape.
Draws(tp, p) == IF p < Len(tp) /\ tp[p + 1] # None THEN {tp[p + 1]} ELSE Units

Recorded(tp, p, u) ==
    IF p < Len(tp) THEN [tp EXCEPT ![p + 1] = u] ELSE Append(tp, u)

\* the tape after k values from position p on were consumed unobserved
Skipped(tp, p, k) ==
    IF p + k <= Len(tp) THEN tp
    ELSE tp \o [i \in 1..(p + k - Len(tp)) |-> None]

\* the generator left where the previous run stopped
Reseed_Skipped(p) == p

\* random.seed(seed_hash): the stream of the seed starts over
Reseed(p) == 0

\* ------------------------------------------------------------ progress
\* a percent handed to the callback, as the fraction <<num, den>>
Percent(p) == <<p, 1>>

\* progress = (frame_num / self.frame_count) * 100
AnalysisPercent(n, fc) == <<n * 100, fc>>

\* frame_num % (sample_interval * 50) == 0
NotifyDue(n, f) == n % (sample_interval(f) * 50) = 0

\* ------------------------------------------------------------ rally records
\* _determine_end_reason for a rally of d frames and random() = u / UnitRes
EndReason(d, f, u) ==
    LET net == IF d < 5 * f THEN 30 ELSE IF d < 15 * f THEN 15 ELSE 10
        out == IF d < 5 * f THEN 50 ELSE IF d < 15 * f THEN 25 ELSE 20
    IN  IF 100 * u < net * UnitRes THEN "net"
        ELSE IF 100 * u < out * UnitRes THEN "out"
        ELSE "in_court"

\* _determine_winner: random.random() < 0.55
Winner(u) == IF 100 * u < 55 * UnitRes THEN "Player A" ELSE "Player B"

\* estimated_shots = max(2, int(duration * random.uniform(0.5, 1.2)))
EstimatedShots(d, f, u) ==
    Max(2, (d * (5 * UnitRes + 7 * u)) \div (10 * UnitRes * f))

\* frame = int(start_frame + shot_interval * (i + 1)), for i from 0
ShotFrame(seg, shots, i) ==
    seg[1] + ((seg[2] - seg[1]) * (i + 1)) \div (shots + 1)

\* random.randint(-5, 5), both ends included, for the unit u
Jitter(u) == ((10 * u) \div (UnitRes - 1)) - 5

\* the jittered frame used as it is
ClampFrame_None(frame, seg) == frame

\* frame = max(start_frame, min(end_frame, frame))
ClampFrame(frame, seg) == Max(seg[1], Min(seg[2], frame))

\* player = 'Player A' if i % 2 == 0 else 'Player B'
HitPlayer(i) == IF i % 2 = 0 THEN "Player A" ELSE "Player B"

\* x / self.width = random.uniform(0.25, 0.75), as a fraction
XFraction(u) == <<UnitRes + 2 * u, 4 * UnitRes>>

\* y / self.height = random.uniform(0.6, 0.85) for Player A and
\* random.uniform(0.15, 0.4) for Player B, as a fraction
YFraction(player, u) ==
    IF player = "Player A"
    THEN <<12 * UnitRes + 5 * u, 20 * UnitRes>>
    ELSE <<3 * UnitRes + 5 * u, 20 * UnitRes>>

\* the hits of one rally, by player: A on even i, B on odd i
Hits(shots) ==
    [k \in 1..shots |-> IF (k - 1) % 2 = 0 THEN "Player A" ELSE "Player B"]

\* values estimate_hits_in_rally consumes: one for the rate and, for each
\* hit, the frame offset and the two coordinates
HitDraws(shots) == 1 + 3 * shots

\* the index of enumerate taken as the number
RallyNumber_ZeroBased(i) == i

\* rally_number = i + 1
RallyNumber(i) == i + 1

\* _generate_rally_description: the rally's number, the count of its shots,
\* the ending chosen for its end_reason, and the winner when there is one
Description(rally) ==
    <<rally.rally_number, Len(rally.shots), rally.end_reason>>
        \o (IF rally.winner # "" THEN <<rally.winner>> ELSE <<>>)

\* Rally(...) as segment_rallies fills it; a field left out keeps its default
NewRally(i, seg, f, reason, who) ==
    [rally_number |-> RallyNumber(i),
     start_frame |-> seg[1],
     end_frame |-> seg[2],
     start_time |-> <<seg[1], f>>,
     end_time |-> <<seg[2], f>>,
     duration |-> <<seg[2] - seg[1], f>>,
     winner |-> who,
     end_reason |-> reason,
     shots |-> <<>>,
     mistakes |-> <<>>,
     description |-> <<>>,
     clip_path |-> ""]

\* ------------------------------------------------------------ state
VARIABLES
    fps,            \* self.fps
    frame_count,    \* self.frame_count, as the container reports it
    frames,         \* frames the source yields before read() fails
    score,          \* motion score of each sampled frame of the source
    motion_data,    \* self.motion_data
    active,         \* df['active']
    idle,           \* df['idle']
    idx,            \* row of the boundary walk
    in_rally,
    rally_start,
    idle_start,
    segments,       \* rally_segments, local to detect_rally_boundaries
    fb_segments,    \* segments, local to _create_time_based_rallies
    current_time,   \* in ticks
    rally_segments, \* self.rally_segments, the list returned
    pc,             \* position of the run
    tape,           \* random: values of the stream of the current seed
    pos,            \* random: values consumed since seeding
    run,            \* 1, or 2 in the rerun on the same source
    first_result,   \* the list the first run returned
    passes,         \* passes over the frame source in this run
    path,           \* steps this run has taken
    gaps,           \* idle runs ended by motion: <<rally_start, idle_start, frame>>
    opened,         \* whether cv2.VideoCapture could open the source
    frame_num,      \* analyze_motion: frames read so far in the pass
    prev_frame,     \* analyze_motion: the sampled frame before, or None
    motion_local,   \* analyze_motion: its local list motion_data
    notes,          \* percents handed to progress_callback, as fractions
    rallies,        \* segment_rallies: its local list of Rally records
    hit_points,     \* self.hit_points, the player of each hit
    hit_arg,        \* estimate_hits_in_rally: <<start_frame, end_frame>>
    estimated_shots,
    hits,           \* estimate_hits_in_rally: its local list
    classified,     \* run_analysis: rallies the classifier has been given
    other_drawn,    \* values another run took from the process-wide generator
    analysis_status, \* analysis_status[session_id]["status"]
    db_status,      \* the status column of the session's row
    connection,     \* manager.active_connections[session_id] and its peer
    tasks,          \* the run_analysis tasks started for the session
    responses       \* the status codes POST /analyze has answered

vars == <<fps, frame_count, frames, score, motion_data, active, idle, idx,
          in_rally, rally_start, idle_start, segments, fb_segments,
          current_time, rally_segments, pc, tape, pos, run, first_result,
          passes, path, gaps, opened, frame_num, prev_frame, motion_local,
          notes, rallies, hit_points, hit_arg, estimated_shots, hits,
          classified, other_drawn,
          analysis_status, db_status, connection, tasks, responses>>

source == <<fps, frame_count, frames, score, opened>>
reader == <<frame_num, prev_frame, motion_local>>
built == <<rallies, hit_points>>
estimate == <<hit_arg, estimated_shots, hits>>
app == <<analysis_status, db_status, connection, tasks, responses>>
later == <<estimate, classified, other_drawn, app>>
walk == <<idx, in_rally, rally_start, idle_start, segments, gaps>>
classes == <<active, idle>>
rng == <<tape, pos>>
runs == <<run, first_result>>
\* what the detector and the reader hold, the position and the generator apart
detector == <<source, motion_data, classes, walk, fb_segments, current_time,
              rally_segments, runs, passes, path, reader, notes>>

\* A synthetic source at 30 fps: 4 s of high motion then 4 s of near-zero
\* motion, three times over (24 s), sampled as analyze_motion samples it.
SynthFrames == 30 * 4 * 6
SynthScore(high, low) ==
    [k \in 1..SampleCount(SynthFrames, 30) |->
        IF ((k * sample_interval(30)) \div (30 * 4)) % 2 = 0 THEN high ELSE low]

\* RallySegmenter.__init__ on a fresh object
Fresh ==
    /\ motion_data = <<>>
    /\ rally_segments = <<>>
    /\ active = <<>>
    /\ idle = <<>>
    /\ idx = 0
    /\ in_rally = FALSE
    /\ rally_start = 0
    /\ idle_start = None
    /\ segments = <<>>
    /\ fb_segments = <<>>
    /\ current_time = 0
    /\ passes = 0
    /\ path = {}
    /\ gaps = {}
    /\ frame_num = 0
    /\ prev_frame = None
    /\ motion_local = <<>>
    /\ notes = <<>>
    /\ rallies = <<>>
    /\ hit_points = <<>>
    /\ hit_arg = <<>>
    /\ estimated_shots = 0
    /\ hits = <<>>
    /\ classified = 0
    /\ other_drawn = 0
    /\ analysis_status = "none"
    /\ db_status = "none"
    /\ connection = "none"
    /\ tasks = <<>>
    /\ responses = <<>>

InitVideo ==
    \E raw \in 0..MaxFps, fa \in 0..MaxRead :
        /\ fps = EffectiveFps(raw)
        /\ frames = fa
        /\ frame_count \in {fa, fa + TruncFrames}
        /\ score \in [1..SampleCount(fa, EffectiveFps(raw)) -> {0, HighMotion}]
        /\ opened = TRUE

InitSynth ==
    /\ fps = 30
    /\ frames = SynthFrames
    /\ frame_count = SynthFrames
    /\ \E low \in 0..NearZero : score = SynthScore(SynthHigh, low)
    /\ opened = TRUE

Init ==
    /\ InitVideo \/ InitSynth
    /\ Fresh
    /\ pc = "seed"
    /\ tape = <<>>
    /\ pos = 0
    /\ run = 1
    /\ first_result = <<>>

\* ------------------------------------------------------------ actions
\* run_analysis: random.seed(seed_hash) before the pipeline starts
Seed ==
    /\ pc = "seed"
    /\ pos' = Reseed(pos)
    /\ pc' = "analyze"
    /\ UNCHANGED <<source, motion_data, classes, walk, fb_segments,
                   current_time, rally_segments, tape, runs, passes, path>>
    /\ UNCHANGED <<reader, notes, built, later>>

\* segment_rallies: self.analyze_motion(...)
Analyze ==
    /\ pc = "analyze"
    /\ motion_data' = AnalyzeMotion(frames, score, fps)
    /\ passes' = passes + 1
    /\ pc' = "detect"
    /\ UNCHANGED <<source, classes, walk, fb_segments, current_time,
                   rally_segments, rng, runs, path>>
    /\ UNCHANGED <<reader, notes, built, later>>

\* _create_time_based_rallies, up to the loop
EnterFallback ==
    /\ fb_segments' = <<>>
    /\ current_time' = SkipSeconds * UnitRes
    /\ pc' = "fallback"

\* detect_rally_boundaries, up to the loop over the rows
DetectBegin ==
    /\ pc = "detect"
    /\ LET md == IF motion_data = <<>>
                 THEN AnalyzeMotion(frames, score, fps)
                 ELSE motion_data
       IN  /\ motion_data' = md
           /\ passes' = IF motion_data = <<>> THEN passes + 1 ELSE passes
           /\ IF TooFewSamples(md)
              THEN /\ EnterFallback
                   /\ path' = path \cup {"fallback"}
                   /\ UNCHANGED <<classes, walk>>
              ELSE /\ LET c == Classify(motion_smooth(md, window_size(fps)))
                      IN  active' = c.active /\ idle' = c.idle
                   /\ idx' = 1
                   /\ in_rally' = FALSE
                   /\ rally_start' = 0
                   /\ idle_start' = None
                   /\ segments' = <<>>
                   /\ gaps' = {}
                   /\ path' = path \cup {"smooth", "threshold", "walk"}
                   /\ pc' = "walk"
                   /\ UNCHANGED <<fb_segments, current_time>>
    /\ UNCHANGED <<source, rally_segments, rng, runs>>
    /\ UNCHANGED <<reader, notes, built, later>>

\* one row of the loop of detect_rally_boundaries
WalkStep ==
    /\ pc = "walk"
    /\ idx <= Len(motion_data)
    /\ LET frame == motion_data[idx].frame
       IN  IF ~in_rally
           THEN IF StartsRally(active[idx], idle[idx])
                THEN /\ in_rally' = TRUE
                     /\ rally_start' = frame
                     /\ idle_start' = None
                     /\ UNCHANGED <<segments, gaps>>
                ELSE UNCHANGED <<in_rally, rally_start, idle_start, segments, gaps>>
           ELSE IF idle[idx]
                THEN IF idle_start = None
                     THEN /\ idle_start' = frame
                          /\ UNCHANGED <<in_rally, rally_start, segments, gaps>>
                     ELSE IF IdlePersisted(frame, idle_start, fps)
                          THEN /\ segments' =
                                    IF LongEnough(frame, rally_start, fps)
                                    THEN Append(segments,
                                                ClosedSegment(rally_start, idle_start, frame))
                                    ELSE segments
                               /\ in_rally' = FALSE
                               /\ idle_start' = None
                               /\ UNCHANGED <<rally_start, gaps>>
                          ELSE UNCHANGED <<in_rally, rally_start, idle_start,
                                           segments, gaps>>
                ELSE /\ idle_start' = IdleStartAfterMotion(idle_start)
                     /\ gaps' = IF idle_start = None THEN gaps
                                ELSE gaps \cup {<<rally_start, idle_start, frame>>}
                     /\ UNCHANGED <<in_rally, rally_start, segments>>
    /\ idx' = idx + 1
    /\ UNCHANGED <<source, motion_data, classes, fb_segments, current_time,
                   rally_segments, pc, rng, runs, passes, path>>
    /\ UNCHANGED <<reader, notes, built, later>>

\* detect_rally_boundaries after the loop: the last rally, then the result
LastRally ==
    /\ pc = "walk"
    /\ idx > Len(motion_data)
    /\ LET last_frame == motion_data[Len(motion_data)].frame
           found == IF in_rally /\ LongEnough(last_frame, rally_start, fps)
                    THEN Append(segments,
                                OpenSegment(rally_start, idle_start, last_frame))
                    ELSE segments
       IN  /\ segments' = found
           /\ IF NoRallies(found)
              THEN /\ EnterFallback
                   /\ path' = path \cup {"fallback"}
                   /\ UNCHANGED rally_segments
              ELSE /\ rally_segments' = found
                   /\ pc' = "done"
                   /\ UNCHANGED <<fb_segments, current_time, path>>
    /\ UNCHANGED <<source, motion_data, classes, idx, in_rally, rally_start,
                   idle_start, gaps, rng, runs, passes>>
    /\ UNCHANGED <<reader, notes, built, later>>

\* one turn of the loop of _create_time_based_rallies, or its exit
FallbackStep ==
    /\ pc = "fallback"
    /\ IF ~MoreTime(current_time, frame_count, fps)
       THEN /\ rally_segments' = fb_segments
            /\ pc' = "done"
            /\ UNCHANGED <<fb_segments, current_time, rng>>
       ELSE \E u \in Draws(tape, pos) :
              LET rd == RallyTicks(frame_count, fps, u)
                  start_frame == FrameAt(current_time, fps)
                  end_frame == FrameAt(current_time + rd, fps)
                  tape1 == Recorded(tape, pos, u)
              IN  IF PastEnd(end_frame, frame_count)
                  THEN /\ rally_segments' = fb_segments
                       /\ pc' = "done"
                       /\ tape' = tape1
                       /\ pos' = pos + 1
                       /\ UNCHANGED <<fb_segments, current_time>>
                  ELSE \E g \in Draws(tape1, pos + 1) :
                         /\ fb_segments' = Append(fb_segments, <<start_frame, end_frame>>)
                         /\ current_time' = NextTime(current_time, rd, GapTicks(g))
                         /\ tape' = Recorded(tape1, pos + 1, g)
                         /\ pos' = pos + 2
                         /\ UNCHANGED <<rally_segments, pc>>
    /\ UNCHANGED <<source, motion_data, classes, walk, runs, passes, path>>
    /\ UNCHANGED <<reader, notes, built, later>>

\* the pipeline run again on the same source, on a fresh RallySegmenter
Rerun ==
    /\ pc = "done"
    /\ run = 1
    /\ run' = 2
    /\ first_result' = rally_segments
    /\ motion_data' = <<>>
    /\ rally_segments' = <<>>
    /\ active' = <<>>
    /\ idle' = <<>>
    /\ idx' = 0
    /\ in_rally' = FALSE
    /\ rally_start' = 0
    /\ idle_start' = None
    /\ segments' = <<>>
    /\ fb_segments' = <<>>
    /\ current_time' = 0
    /\ passes' = 0
    /\ path' = {}
    /\ gaps' = {}
    /\ pc' = "seed"
    /\ UNCHANGED <<source, rng>>
    /\ UNCHANGED <<reader, notes, built, later>>

Next == Seed \/ Analyze \/ DetectBegin \/ WalkStep \/ LastRally \/ FallbackStep

Spec == Init /\ [][Next]_vars

NextTwice == Next \/ Rerun

SpecTwice == Init /\ [][NextTwice]_vars

\* ------------------------------------------------------------ five-minute videos
\* Still videos at 1 fps, one just under and one of five minutes, run through
\* the seeded pipeline; the stream of the seed is known in full and periodic.
TapeLen == 2 * (ShortVideoSeconds \div (5 + MinGapSeconds)) + 2

PeriodicTapesOf(period) ==
    {[i \in 1..TapeLen |-> base[((i - 1) % period) + 1]] :
        base \in [1..period -> Units]}

PeriodicTapes == PeriodicTapesOf(TapePeriod)

InitFiveMinutes ==
    /\ fps = 1
    /\ frames \in {ShortVideoSeconds - 1, ShortVideoSeconds}
    /\ frame_count = frames
    /\ score = [k \in 1..SampleCount(frames, 1) |-> 0]
    /\ opened = TRUE
    /\ Fresh
    /\ pc = "seed"
    /\ tape \in PeriodicTapes
    /\ pos = 0
    /\ run = 1
    /\ first_result = <<>>

SpecLong == InitFiveMinutes /\ [][Next]_vars

\* ------------------------------------------------------------ segment_rallies
\* The engine called directly, with a progress callback and an unseeded
\* generator.  Scores are high on a prefix of the series and zero after it.
PrefixScores(n) ==
    {[k \in 1..n |-> IF k <= b THEN HighMotion ELSE 0] : b \in 0..n}

InitSyncVideo ==
    \E raw \in 0..MaxFps, fa \in 0..MaxRead :
        /\ fps = EffectiveFps(raw)
        /\ frames = fa
        /\ frame_count \in {fa, fa + 1}
        /\ score \in PrefixScores(SampleCount(fa, EffectiveFps(raw)))
        /\ opened = TRUE

\* a source at 30 fps long enough for analyze_motion to report its progress
InitSyncLong ==
    /\ fps = 30
    /\ frames = LongFrames
    /\ frame_count = LongFrames
    /\ score \in PrefixScores(SampleCount(LongFrames, 30))
    /\ opened = TRUE

\* a path cv2.VideoCapture cannot open: every property reads 0, read() fails
InitUnopened ==
    /\ fps = EffectiveFps(0)
    /\ frames = 0
    /\ frame_count = 0
    /\ score = <<>>
    /\ opened = FALSE

InitSync ==
    /\ InitSyncVideo \/ InitSyncLong \/ InitUnopened
    /\ Fresh
    /\ pc = "start"
    /\ tape = <<>>
    /\ pos = 0
    /\ run = 1
    /\ first_result = <<>>

\* segment_rallies: progress_callback(0, ...), then analyze_motion up to its loop
SyncStart ==
    /\ pc = "start"
    /\ notes' = Append(notes, Percent(0))
    /\ frame_num' = 0
    /\ prev_frame' = None
    /\ motion_local' = <<>>
    /\ pc' = "read"
    /\ UNCHANGED <<source, motion_data, classes, walk, fb_segments,
                   current_time, rally_segments, rng, runs, passes, path, built>>
    /\ UNCHANGED later

\* one turn of the loop of analyze_motion, or its exit when read() fails
ReadFrame ==
    /\ pc = "read"
    /\ IF frame_num >= frames
       THEN /\ motion_data' = PassResult(motion_local)
            /\ passes' = passes + 1
            /\ pc' = "analyzed"
            /\ UNCHANGED <<reader, notes>>
       ELSE /\ IF frame_num % sample_interval(fps) = 0
               THEN /\ motion_local' =
                         IF prev_frame # None
                         THEN Append(motion_local,
                                     [frame |-> frame_num,
                                      time |-> <<frame_num, fps>>,
                                      motion |-> score[Len(motion_local) + 1]])
                         ELSE motion_local
                    /\ prev_frame' = frame_num
               ELSE UNCHANGED <<motion_local, prev_frame>>
            /\ frame_num' = frame_num + 1
            /\ notes' = IF NotifyDue(frame_num + 1, fps)
                        THEN Append(notes, AnalysisPercent(frame_num + 1, frame_count))
                        ELSE notes
            /\ UNCHANGED <<motion_data, passes, pc>>
    /\ UNCHANGED <<source, classes, walk, fb_segments, current_time,
                   rally_segments, rng, runs, path, built>>
    /\ UNCHANGED later

\* segment_rallies: progress_callback(50, ...) before detect_rally_boundaries
SyncDetect ==
    /\ pc = "analyzed"
    /\ notes' = Append(notes, Percent(50))
    /\ pc' = "detect"
    /\ UNCHANGED <<source, motion_data, classes, walk, fb_segments,
                   current_time, rally_segments, rng, runs, passes, path,
                   reader, built>>
    /\ UNCHANGED later

\* segment_rallies: progress_callback(75, ...) and the empty list of rallies
BuildBegin ==
    /\ pc = "done"
    /\ notes' = Append(notes, Percent(75))
    /\ rallies' = <<>>
    /\ pc' = "build"
    /\ UNCHANGED <<source, motion_data, classes, walk, fb_segments,
                   current_time, rally_segments, rng, runs, passes, path,
                   reader, hit_points>>
    /\ UNCHANGED later

\* one turn of the loop over self.rally_segments
BuildRally ==
    /\ pc = "build"
    /\ Len(rallies) < Len(rally_segments)
    /\ \E ur \in Draws(tape, pos), uw \in Draws(tape, pos + 1),
          us \in Draws(tape, pos + 2) :
          LET i == Len(rallies)
              seg == rally_segments[i + 1]
              end_reason == EndReason(seg[2] - seg[1], fps, ur)
              winner == Winner(uw)
              rally == NewRally(i, seg, fps, end_reason, winner)
              shots == EstimatedShots(seg[2] - seg[1], fps, us)
          IN  /\ hit_points' = hit_points \o Hits(shots)
              /\ rallies' = Append(rallies,
                                   [rally EXCEPT !.description = Description(rally)])
              /\ tape' = Skipped(tape, pos, 2 + HitDraws(shots) + 2)
              /\ pos' = pos + 2 + HitDraws(shots) + 2
    /\ UNCHANGED <<source, motion_data, classes, walk, fb_segments,
                   current_time, rally_segments, pc, runs, passes, path,
                   reader, notes>>
    /\ UNCHANGED later

\* segment_rallies: return rallies
SyncReturn ==
    /\ pc = "build"
    /\ Len(rallies) = Len(rally_segments)
    /\ pc' = "returned"
    /\ UNCHANGED <<source, motion_data, classes, walk, fb_segments,
                   current_time, rally_segments, rng, runs, passes, path,
                   reader, notes, built>>
    /\ UNCHANGED later

NextSync ==
    \/ SyncStart \/ ReadFrame \/ SyncDetect
    \/ DetectBegin \/ WalkStep \/ LastRally \/ FallbackStep
    \/ BuildBegin \/ BuildRally \/ SyncReturn

SpecSync == InitSync /\ [][NextSync]_vars

\* ------------------------------------------------------------ shot classification
\* num_shots = max(2, int(duration * random.uniform(0.6, 1.2))), the
\* classifier's own estimate for a rally of d frames
ClassifierShots(d, f, u) ==
    Max(2, (d * (6 * UnitRes + 6 * u)) \div (10 * UnitRes * f))

\* classify_rally_shots(rally): shots already there are kept, hit points
\* found in the rally give the count, the frames and the times, and
\* otherwise the classifier makes its own estimate at 30 fps
ClassifyRallyShots(rally, u) ==
    IF Len(rally.shots) > 0 THEN rally.shots
    ELSE LET seg == <<rally.start_frame, rally.end_frame>>
             given == "hit_points" \in DOMAIN rally
             num_shots == IF given THEN Len(rally.hit_points)
                          ELSE ClassifierShots(rally.duration[1], rally.duration[2], u)
         IN  [k \in 1..num_shots |->
                 LET frame == IF given THEN rally.hit_points[k].frame
                              ELSE ShotFrame(seg, num_shots, k - 1)
                 IN  [shot_number |-> k,
                      frame |-> frame,
                      time |-> IF given THEN rally.hit_points[k].time
                               ELSE <<frame, 30>>,
                      player |-> HitPlayer(k - 1)]]

\* The seeded pipeline up to the classifier: segment_rallies_async builds the
\* rallies as segment_rallies does and run_analysis collects rally.__dict__.
\* The notifications of this path change nothing here and are left out.
InitClassify ==
    /\ InitSyncVideo
    /\ Fresh
    /\ pc = "seed"
    /\ tape = <<>>
    /\ pos = 0
    /\ run = 1
    /\ first_result = <<>>

\* segment_rallies_async: rallies = []
AsyncBuildBegin ==
    /\ pc = "done"
    /\ rallies' = <<>>
    /\ pc' = "build"
    /\ UNCHANGED <<detector, rng, hit_points, later>>

\* run_analysis: the generator exhausted, the rallies collected
AsyncBuildEnd ==
    /\ pc = "build"
    /\ Len(rallies) = Len(rally_segments)
    /\ classified' = 0
    /\ pc' = "segmented"
    /\ UNCHANGED <<detector, rng, built, estimate, other_drawn, app>>

\* run_analysis: rally["shots"] = classifier.classify_rally_shots(rally).
\* The positions are two values a shot; the values the choice of the shot
\* types consumes are not counted.
ClassifyRally ==
    /\ pc = "segmented"
    /\ classified < Len(rallies)
    /\ \E u \in Draws(tape, pos) :
          LET rally == rallies[classified + 1]
              shots == ClassifyRallyShots(rally, u)
          IN  /\ rallies' = [rallies EXCEPT ![classified + 1].shots = shots]
              /\ tape' = Skipped(Recorded(tape, pos, u), pos + 1, 2 * Len(shots))
              /\ pos' = pos + 1 + 2 * Len(shots)
    /\ classified' = classified + 1
    /\ UNCHANGED <<detector, hit_points, estimate, other_drawn, app, pc>>

\* run_analysis: the loop over the rallies is over
ClassifyEnd ==
    /\ pc = "segmented"
    /\ classified = Len(rallies)
    /\ pc' = "classified"
    /\ UNCHANGED <<detector, rng, built, later>>

NextClassify ==
    \/ Seed \/ Analyze \/ DetectBegin \/ WalkStep \/ LastRally \/ FallbackStep
    \/ AsyncBuildBegin \/ BuildRally \/ AsyncBuildEnd
    \/ ClassifyRally \/ ClassifyEnd

SpecClassify == InitClassify /\ [][NextClassify]_vars

\* ------------------------------------------------------------ concurrent runs
\* `random` is one generator for the whole process. run_analysis runs as a
\* background task and hands analyze_motion and detect_rally_boundaries to
\* executor threads, so the run of another session, already past its own
\* random.seed, takes values (a gap, a winner, a shot position) between any
\* two steps of this run. The first run is alone; the second has company.
OtherDraws == 2

OtherDraw ==
    /\ run = 2
    /\ pc # "done"
    /\ other_drawn < OtherDraws
    /\ tape' = Skipped(tape, pos, 1)
    /\ pos' = pos + 1
    /\ other_drawn' = other_drawn + 1
    /\ UNCHANGED <<detector, built, estimate, classified, app, pc>>

NextShared == NextTwice \/ OtherDraw

SpecShared == InitClassify /\ [][NextShared]_vars

\* ------------------------------------------------------------ the analysis task
\* POST /analyze, the run_analysis tasks it starts and the websocket of the
\* session. The stages of run_analysis are taken whole: what each computes is
\* the subject of the specifications above. A video that cannot be opened
\* makes VideoProcessor raise; a notification to a peer that does not read
\* waits, and one to a peer that has gone raises.
MaxPosts == 2

engine == <<detector, rng, built, estimate, classified, other_drawn, pc>>

NewTask == [at |-> "queued", handles |-> {}, wrote |-> "none", waiting |-> FALSE]

\* where run_analysis goes on after each of its awaits of send_progress
AfterSend ==
    [send_init |-> "video", send_video |-> "segment",
     send_segment |-> "mistakes", send_mistakes |-> "results",
     send_complete |-> "cleanup", send_error |-> "returned"]

Running(t) == tasks[t].at \notin {"queued", "returned"}

InitApp ==
    /\ fps = 1
    /\ frames = 0
    /\ frame_count = 0
    /\ score = <<>>
    /\ opened \in BOOLEAN
    /\ Fresh
    /\ pc = "app"
    /\ tape = <<>>
    /\ pos = 0
    /\ run = 1
    /\ first_result = <<>>

\* start_analysis: 409 while the status reads "processing", else the row of
\* the session is set to processing and run_analysis is added as a task
StartAnalysis ==
    /\ Len(responses) < MaxPosts
    /\ IF analysis_status = "processing"
       THEN /\ responses' = Append(responses, 409)
            /\ UNCHANGED <<db_status, tasks>>
       ELSE /\ responses' = Append(responses, 200)
            /\ db_status' = "processing"
            /\ tasks' = Append(tasks, NewTask)
    /\ UNCHANGED <<analysis_status, connection, engine>>

\* run_analysis: analysis_status[session_id] = {"status": "processing", ...}
Begin ==
    \E t \in DOMAIN tasks :
        /\ tasks[t].at = "queued"
        /\ analysis_status' = "processing"
        /\ tasks' = [tasks EXCEPT ![t].at = "send_init", ![t].wrote = "processing"]
        /\ UNCHANGED <<db_status, connection, responses, engine>>

\* await manager.send_progress(...): nothing is sent without a registered
\* connection; send_json is awaited with no timeout and no handler
SendProgress ==
    \E t \in DOMAIN tasks :
        /\ tasks[t].at \in DOMAIN AfterSend
        /\ CASE connection \in {"none", "open"} ->
                  tasks' = [tasks EXCEPT ![t].at = AfterSend[@],
                                         ![t].waiting = FALSE]
             [] connection = "stalled" ->
                  /\ ~tasks[t].waiting
                  /\ tasks' = [tasks EXCEPT ![t].waiting = TRUE]
             [] connection = "closed" ->
                  tasks' = [tasks EXCEPT
                              ![t].at = IF @ = "send_error" THEN "returned"
                                        ELSE "except",
                              ![t].waiting = FALSE]
        /\ UNCHANGED <<analysis_status, db_status, connection, responses, engine>>

\* processor = VideoProcessor(video_path); processor.get_video_info()
OpenVideo ==
    \E t \in DOMAIN tasks :
        /\ tasks[t].at = "video"
        /\ tasks' = IF opened
                    THEN [tasks EXCEPT ![t].at = "send_video",
                                       ![t].handles = @ \cup {"processor"}]
                    ELSE [tasks EXCEPT ![t].at = "except"]
        /\ UNCHANGED <<analysis_status, db_status, connection, responses, engine>>

\* segmenter = RallySegmenter(...), which opens its capture, and the rallies
SegmentStage ==
    \E t \in DOMAIN tasks :
        /\ tasks[t].at = "segment"
        /\ tasks' = [tasks EXCEPT ![t].at = "send_segment",
                                  ![t].handles = @ \cup {"segmenter"}]
        /\ UNCHANGED <<analysis_status, db_status, connection, responses, engine>>

\* the classifier and analyzer = MistakeAnalyzer(...), whose capture is
\* opened on first use
MistakeStage ==
    \E t \in DOMAIN tasks :
        /\ tasks[t].at = "mistakes"
        /\ \E used \in BOOLEAN :
              tasks' = [tasks EXCEPT
                          ![t].at = "send_mistakes",
                          ![t].handles = IF used THEN @ \cup {"analyzer"} ELSE @]
        /\ UNCHANGED <<analysis_status, db_status, connection, responses, engine>>

\* the results written, analysis_status set to completed, complete_session
Complete ==
    \E t \in DOMAIN tasks :
        /\ tasks[t].at = "results"
        /\ analysis_status' = "completed"
        /\ db_status' = "completed"
        /\ tasks' = [tasks EXCEPT ![t].at = "send_complete",
                                  ![t].wrote = "completed"]
        /\ UNCHANGED <<connection, responses, engine>>

\* processor.close(); segmenter.close(); analyzer.close()
Cleanup ==
    \E t \in DOMAIN tasks :
        /\ tasks[t].at = "cleanup"
        /\ tasks' = [tasks EXCEPT ![t].at = "returned", ![t].handles = {}]
        /\ UNCHANGED <<analysis_status, db_status, connection, responses, engine>>

\* except Exception: analysis_status set to failed, fail_session
Fail ==
    \E t \in DOMAIN tasks :
        /\ tasks[t].at = "except"
        /\ analysis_status' = "failed"
        /\ db_status' = "failed"
        /\ tasks' = [tasks EXCEPT ![t].at = "send_error", ![t].wrote = "failed"]
        /\ UNCHANGED <<connection, responses, engine>>

\* websocket_endpoint: manager.connect
Connect ==
    /\ connection = "none"
    /\ connection' = "open"
    /\ UNCHANGED <<analysis_status, db_status, tasks, responses, engine>>

\* the peer stops reading
Stall ==
    /\ connection = "open"
    /\ connection' = "stalled"
    /\ UNCHANGED <<analysis_status, db_status, tasks, responses, engine>>

\* the peer reads again
Resume ==
    /\ connection = "stalled"
    /\ connection' = "open"
    /\ UNCHANGED <<analysis_status, db_status, tasks, responses, engine>>

\* the peer goes away; the connection stays registered
Close ==
    /\ connection \in {"open", "stalled"}
    /\ connection' = "closed"
    /\ UNCHANGED <<analysis_status, db_status, tasks, responses, engine>>

\* websocket_endpoint: WebSocketDisconnect, manager.disconnect
Disconnect ==
    /\ connection = "closed"
    /\ connection' = "none"
    /\ UNCHANGED <<analysis_status, db_status, tasks, responses, engine>>

NextApp ==
    \/ StartAnalysis
    \/ Begin \/ SendProgress \/ OpenVideo \/ SegmentStage
    \/ MistakeStage \/ Complete \/ Cleanup \/ Fail
    \/ Connect \/ Stall \/ Resume \/ Close \/ Disconnect

SpecApp == InitApp /\ [][NextApp]_vars

\* ------------------------------------------------------------ estimate_hits_in_rally
\* The estimator called on a segment of 1 to MaxRead frames; the stream of the
\* generator is known in full and periodic, its period no multiple of the
\* three values a hit consumes.
InitHits ==
    /\ \E raw \in 0..MaxFps, start_frame \in {0, MaxRead}, len \in 1..MaxRead :
          /\ fps = EffectiveFps(raw)
          /\ hit_arg = <<start_frame, start_frame + len>>
          /\ frames = start_frame + len + 1
    /\ frame_count = frames
    /\ score = [k \in 1..SampleCount(frames, fps) |-> 0]
    /\ opened = TRUE
    /\ motion_data = <<>> /\ rally_segments = <<>>
    /\ active = <<>> /\ idle = <<>>
    /\ idx = 0 /\ in_rally = FALSE /\ rally_start = 0 /\ idle_start = None
    /\ segments = <<>> /\ gaps = {}
    /\ fb_segments = <<>> /\ current_time = 0
    /\ passes = 0 /\ path = {}
    /\ frame_num = 0 /\ prev_frame = None /\ motion_local = <<>>
    /\ notes = <<>> /\ rallies = <<>> /\ hit_points = <<>>
    /\ estimated_shots = 0
    /\ hits = <<>>
    /\ classified = 0
    /\ other_drawn = 0
    /\ analysis_status = "none"
    /\ db_status = "none"
    /\ connection = "none"
    /\ tasks = <<>>
    /\ responses = <<>>
    /\ pc = "hits"
    /\ tape \in PeriodicTapesOf(TapePeriod + 1)
    /\ pos = 0
    /\ run = 1
    /\ first_result = <<>>

\* estimate_hits_in_rally, up to its loop
HitsBegin ==
    /\ pc = "hits"
    /\ \E u \in Draws(tape, pos) :
          /\ estimated_shots' = EstimatedShots(hit_arg[2] - hit_arg[1], fps, u)
          /\ tape' = Recorded(tape, pos, u)
    /\ pos' = pos + 1
    /\ hits' = <<>>
    /\ pc' = "hit"
    /\ UNCHANGED <<detector, built, hit_arg>>
    /\ UNCHANGED <<classified, other_drawn, app>>

\* one turn of the loop of estimate_hits_in_rally
EstimateHit ==
    /\ pc = "hit"
    /\ Len(hits) < estimated_shots
    /\ \E uf \in Draws(tape, pos) :
        \E ux \in Draws(Recorded(tape, pos, uf), pos + 1) :
        \E uy \in Draws(Recorded(Recorded(tape, pos, uf), pos + 1, ux), pos + 2) :
          LET i == Len(hits)
              frame == ClampFrame(ShotFrame(hit_arg, estimated_shots, i) + Jitter(uf),
                                  hit_arg)
              player == HitPlayer(i)
          IN  /\ hits' = Append(hits, [frame |-> frame,
                                       time |-> <<frame, fps>>,
                                       x |-> XFraction(ux),
                                       y |-> YFraction(player, uy),
                                       player |-> player])
              /\ tape' = Recorded(Recorded(Recorded(tape, pos, uf), pos + 1, ux),
                                  pos + 2, uy)
    /\ pos' = pos + 3
    /\ UNCHANGED <<detector, built, hit_arg, estimated_shots, pc>>
    /\ UNCHANGED <<classified, other_drawn, app>>

\* return hits
HitsReturn ==
    /\ pc = "hit"
    /\ Len(hits) = estimated_shots
    /\ pc' = "estimated"
    /\ UNCHANGED <<detector, built, estimate, rng>>
    /\ UNCHANGED <<classified, other_drawn, app>>

NextHits == HitsBegin \/ EstimateHit \/ HitsReturn

SpecHits == InitHits /\ [][NextHits]_vars

\* ------------------------------------------------------------ properties
SegmentsOf(segs) == {segs[i] : i \in 1..Len(segs)}
Detected == pc = "done" /\ "fallback" \notin path
FellBack == pc = "done" /\ "fallback" \in path

\* C1: the segments returned, by the boundary walk or by the fallback, are in
\* increasing start_frame order and each ends no later than the next starts.
C1_Ordered ==
    pc = "done" =>
        \A i \in 1..(Len(rally_segments) - 1) :
            /\ rally_segments[i][1] < rally_segments[i + 1][1]
            /\ rally_segments[i][2] <= rally_segments[i + 1][1]

\* two segments found by the boundary walk
C1_Witness == Detected /\ Len(rally_segments) >= 2

\* C2: every segment returned has start_frame < end_frame.
C2_StartBeforeEnd ==
    pc = "done" => \A s \in SegmentsOf(rally_segments) : s[1] < s[2]

\* a walk that ended inside a rally and returned its open segment
C2_Witness ==
    /\ Detected
    /\ in_rally
    /\ rally_segments[Len(rally_segments)][2] = motion_data[Len(motion_data)].frame

\* C3: every segment of the boundary walk lasts at least MIN_RALLY_DURATION:
\* (end_frame - start_frame) / fps >= 2.0.
C3_MinDuration ==
    Detected =>
        \A s \in SegmentsOf(rally_segments) : s[2] - s[1] >= MIN_RALLY_DURATION * fps

\* C4: a rally whose motion, from its first sample to the first idle sample,
\* lasted less than MIN_RALLY_DURATION adds no segment when the idle run ends it.
C4_ShortSpikeDropped ==
    [][(/\ pc = "walk"
        /\ in_rally
        /\ ~in_rally'
        /\ idle_start - rally_start < MIN_RALLY_DURATION * fps)
       => segments' = segments]_vars

\* C5: in a rally, motion after an idle run that has not outlasted
\* IDLE_THRESHOLD clears idle_start and leaves the rally open, rally_start and
\* the segments as they were; an idle sample inside the threshold leaves the
\* rally open too; and the segment later reported for that rally holds both
\* sides of the gap, no segment ending or starting inside it.
NoBoundaryInGap(g, s) ==
    /\ ~(g[2] <= s[2] /\ s[2] < g[3])
    /\ ~(g[2] < s[1] /\ s[1] <= g[3])
    /\ s[1] = g[1] => (s[1] < g[2] /\ g[3] <= s[2])

C5_Debounce ==
    /\ [][(/\ pc = "walk"
           /\ idx <= Len(motion_data)
           /\ in_rally
           /\ idle_start # None
           /\ \/ ~idle[idx]
              \/ motion_data[idx].frame - idle_start <= IDLE_THRESHOLD * fps)
          => /\ in_rally'
             /\ rally_start' = rally_start
             /\ segments' = segments
             /\ ~idle[idx] => idle_start' = None]_vars
    /\ [](\A g \in gaps : \A s \in SegmentsOf(segments) : NoBoundaryInGap(g, s))

\* a rally with a debounced gap, reported as one segment
C5_Witness ==
    /\ Detected
    /\ \E g \in gaps : \E s \in SegmentsOf(rally_segments) :
          s[1] = g[1] /\ s[1] < g[2] /\ g[3] <= s[2]

\* C6: the synthetic series (30 fps, 4 s high then 4 s near-zero, three times)
\* yields exactly 3 segments, each within 0.5 s of 4 s.
IsSynthetic ==
    /\ fps = 30
    /\ frames = SynthFrames
    /\ \E low \in 0..NearZero : score = SynthScore(SynthHigh, low)

C6_ThreeSegments ==
    (IsSynthetic /\ pc = "done") =>
        /\ Len(rally_segments) = 3
        /\ \A s \in SegmentsOf(rally_segments) :
              2 * Abs((s[2] - s[1]) - 4 * fps) <= fps

\* C7: with fewer than 10 samples nothing is smoothed, classified or walked,
\* and the list returned is the one the fallback built.
C7_ShortSeriesFallback ==
    (pc = "done" /\ Len(motion_data) < 10) =>
        /\ path = {"fallback"}
        /\ active = <<>> /\ idle = <<>> /\ idx = 0
        /\ rally_segments = fb_segments

\* a short series with motion in it, answered by a fallback segment
C7_Witness ==
    /\ pc = "done"
    /\ Len(motion_data) \in 1..9
    /\ \E k \in 1..Len(motion_data) : motion_data[k].motion > 0
    /\ path = {"fallback"}
    /\ rally_segments # <<>>

\* C8: when the walk over 10 or more samples finds no segment, the fallback
\* runs and its list is returned.
C8_EmptyDetectionFallback ==
    (pc = "done" /\ Len(motion_data) >= 10 /\ segments = <<>>) =>
        /\ "fallback" \in path
        /\ rally_segments = fb_segments

\* a walk that found nothing, answered by a fallback segment
C8_Witness ==
    /\ pc = "done"
    /\ Len(motion_data) >= 10
    /\ {"walk", "fallback"} \subseteq path
    /\ segments = <<>>
    /\ rally_segments # <<>>

C10_SameSegments ==
    (run = 2 /\ pc = "done") => rally_segments = first_result

\* a second run that drew its segments from the generator
C10_Witness ==
    /\ run = 2
    /\ FellBack
    /\ Len(rally_segments) >= 2
    /\ pos >= 3

\* C11: within one run of segment_rallies the percents handed to the
\* progress callback, those of analyze_motion included, never decrease.
PercentLeq(a, b) == a[1] * b[2] <= b[1] * a[2]

C11_Monotone ==
    \A i \in 1..(Len(notes) - 1) : PercentLeq(notes[i], notes[i + 1])

\* C12: a run of segment_rallies that has returned ended its progress stream
\* with the percent 100, or with an error notification.
ErrorNote == <<None, 1>>

C12_FinalHundred ==
    pc = "returned" =>
        /\ notes # <<>>
        /\ \/ notes[Len(notes)] = ErrorNote
           \/ /\ PercentLeq(Percent(100), notes[Len(notes)])
              /\ PercentLeq(notes[Len(notes)], Percent(100))

\* C13: when the frame source cannot be opened the engine returns no segment
\* list and makes no second attempt to read the source.
C13_SourceUnavailable ==
    ~opened => (passes <= 1 /\ pc \notin {"done", "build", "returned"})

\* C14: when the source stops yielding frames before frame_count, every
\* segment returned, the fallback's included, ends no later than the last
\* frame read.
C14_WithinFramesRead ==
    (pc = "done" /\ frames < frame_count) =>
        \A s \in SegmentsOf(rally_segments) : s[2] <= frames - 1

\* C15, as claimed: a Rally built by segment_rallies has its segment fields
\* filled and winner, end_reason, shots, mistakes and description left at
\* their empty defaults.
SegmentFields(k) ==
    /\ rallies[k].rally_number = k
    /\ rallies[k].start_frame = rally_segments[k][1]
    /\ rallies[k].end_frame = rally_segments[k][2]
    /\ rallies[k].start_time = <<rally_segments[k][1], fps>>
    /\ rallies[k].end_time = <<rally_segments[k][2], fps>>
    /\ rallies[k].duration = <<rally_segments[k][2] - rally_segments[k][1], fps>>

C15_OnlySegmentFields ==
    \A k \in 1..Len(rallies) :
        /\ SegmentFields(k)
        /\ rallies[k].winner = ""
        /\ rallies[k].end_reason = ""
        /\ rallies[k].shots = <<>>
        /\ rallies[k].mistakes = <<>>
        /\ rallies[k].description = <<>>

\* C15, amended: a Rally built by segment_rallies has its segment fields
\* filled, and also a winner (Player A or Player B), an end_reason (net, out
\* or in_court) and a description generated from them; shots and mistakes are
\* empty and clip_path is unset.
C15_RallyFields ==
    \A k \in 1..Len(rallies) :
        /\ SegmentFields(k)
        /\ rallies[k].winner \in {"Player A", "Player B"}
        /\ rallies[k].end_reason \in {"net", "out", "in_court"}
        /\ rallies[k].shots = <<>>
        /\ rallies[k].mistakes = <<>>
        /\ rallies[k].clip_path = ""
        /\ rallies[k].description # <<>>
        /\ rallies[k].description[3] = rallies[k].end_reason
        /\ rallies[k].description[4] = rallies[k].winner

\* a run that returned a Rally for a segment of the boundary walk
C15_Witness ==
    /\ pc = "returned"
    /\ "fallback" \notin path
    /\ Len(rallies) >= 1
    /\ Len(rallies) = Len(rally_segments)

\* C16: the walk starts between rallies; between rallies only an active
\* sample starts a rally, setting rally_start to its frame and clearing
\* idle_start, and any other sample changes nothing and emits nothing.
C16_BetweenRallies ==
    /\ []((pc = "walk" /\ idx = 1) =>
             (~in_rally /\ idle_start = None /\ segments = <<>>))
    /\ [][(pc = "walk" /\ idx <= Len(motion_data) /\ ~in_rally)
          => IF active[idx]
             THEN /\ in_rally'
                  /\ rally_start' = motion_data[idx].frame
                  /\ idle_start' = None
                  /\ segments' = segments
             ELSE /\ ~in_rally'
                  /\ rally_start' = rally_start
                  /\ idle_start' = idle_start
                  /\ segments' = segments]_vars

\* a first rally started on an active sample, after an idle sample and a
\* sample neither active nor idle were passed over
C16_Witness ==
    /\ pc = "walk"
    /\ idx >= 4
    /\ in_rally
    /\ segments = <<>>
    /\ rally_start = motion_data[idx - 1].frame
    /\ \A k \in 1..(idx - 2) : ~active[k]
    /\ \E j, k \in 1..(idx - 2) : idle[j] /\ ~idle[k]

\* C17: a rally ends on, and only on, an idle sample whose frame exceeds
\* idle_start by more than IDLE_THRESHOLD seconds of frames, idle_start being
\* the first sample of the unbroken idle run in progress; the segment emitted
\* is (rally_start, idle_start), and the walk is between rallies again with
\* idle_start cleared whether or not a segment was emitted.
C17_RallyEnd ==
    /\ [][(pc = "walk" /\ idx <= Len(motion_data) /\ in_rally)
          => LET frame == motion_data[idx].frame
                 ends == /\ idle[idx]
                         /\ idle_start # None
                         /\ frame - idle_start > IDLE_THRESHOLD * fps
             IN  /\ ~in_rally' <=> ends
                 /\ ends =>
                      /\ idle_start' = None
                      /\ segments' \in {segments,
                                        Append(segments, <<rally_start, idle_start>>)}
                 /\ ~ends => segments' = segments]_vars
    /\ []((pc = "walk" /\ in_rally /\ idle_start # None) =>
             \E j \in 2..(idx - 1) :
                 /\ motion_data[j].frame = idle_start
                 /\ ~idle[j - 1]
                 /\ \A k \in j..(idx - 1) : idle[k])

\* a rally just ended by an idle run longer than the threshold
C17_Witness ==
    /\ pc = "walk"
    /\ idx > 1
    /\ ~in_rally
    /\ idle_start = None
    /\ segments # <<>>
    /\ idle[idx - 1]
    /\ segments[Len(segments)][1] = rally_start
    /\ motion_data[idx - 1].frame - segments[Len(segments)][2] > IDLE_THRESHOLD * fps

\* C18: at the end of the series a rally still open and longer than
\* MIN_RALLY_DURATION adds exactly the segment (rally_start, last frame),
\* a pending idle run notwithstanding; otherwise nothing is added.
C18_FinalSegment ==
    [][(pc = "walk" /\ idx > Len(motion_data))
       => LET last_frame == motion_data[Len(motion_data)].frame
          IN  segments' =
                  IF in_rally /\ last_frame - rally_start > MIN_RALLY_DURATION * fps
                  THEN Append(segments, <<rally_start, last_frame>>)
                  ELSE segments]_vars

\* a series that ended in a rally with an idle run pending
C18_Witness ==
    /\ Detected
    /\ in_rally
    /\ idle_start # None
    /\ idle_start < motion_data[Len(motion_data)].frame
    /\ rally_segments[Len(rally_segments)] =
           <<rally_start, motion_data[Len(motion_data)].frame>>

\* C19: no sample is both active and idle; the active samples are those
\* above a threshold and the idle ones those below a lower threshold, so every
\* active sample's smoothed value exceeds every other's and every idle
\* sample's is below every other's; when all smoothed values are equal no
\* sample is active or idle.
SmoothLess(a, b) == a.num * b.den < b.num * a.den

C19_Thresholds ==
    active # <<>> =>
        LET sm == motion_smooth(motion_data, window_size(fps))
            n == Len(sm)
        IN  /\ \A i \in 1..n : ~(active[i] /\ idle[i])
            /\ \A i, j \in 1..n :
                  /\ (active[i] /\ ~active[j]) => SmoothLess(sm[j], sm[i])
                  /\ (idle[i] /\ ~idle[j]) => SmoothLess(sm[i], sm[j])
            /\ (\A i \in 1..n : ~SmoothLess(sm[i], sm[1]) /\ ~SmoothLess(sm[1], sm[i]))
                  => \A i \in 1..n : ~active[i] /\ ~idle[i]

\* a series classified into active, idle and in-between samples
C19_Witness ==
    /\ pc = "walk"
    /\ \E i, j, k \in 1..Len(active) :
          /\ active[i]
          /\ idle[j]
          /\ ~active[k] /\ ~idle[k]

\* C20: a pass of analyze_motion yields exactly one sample for each frame
\* read whose index is a positive multiple of max(1, int(fps / 5)), none for
\* frame 0 or the frames in between, in strictly increasing frame order, each
\* with time = frame / fps.
SampledFrames(nread, f) ==
    {n \in 1..(nread - 1) : n % Max(1, f \div 5) = 0}

OneSamplePerInterval(md, nread) ==
    /\ {md[k].frame : k \in 1..Len(md)} = SampledFrames(nread, fps)
    /\ Len(md) = Cardinality(SampledFrames(nread, fps))
    /\ \A k \in 1..(Len(md) - 1) : md[k].frame < md[k + 1].frame
    /\ \A k \in 1..Len(md) : md[k].time = <<md[k].frame, fps>>

C20_OneSamplePerInterval ==
    /\ pc = "read" => OneSamplePerInterval(motion_local, frame_num)
    /\ pc \notin {"start", "read"} => OneSamplePerInterval(motion_data, frames)

\* a pass at 30 fps over, its samples at frames 6, 12, ... only
C20_Witness ==
    /\ pc = "analyzed"
    /\ sample_interval(fps) > 1
    /\ Len(motion_data) >= 2
    /\ motion_data[1].frame = sample_interval(fps)
    /\ frames - 1 > motion_data[Len(motion_data)].frame

InBand(v, lo, hi) == 100 * v[1] >= lo * v[2] /\ 100 * v[1] <= hi * v[2]

C22_HitEstimates ==
    pc \in {"hit", "estimated"} =>
        LET d == hit_arg[2] - hit_arg[1]
        IN  /\ estimated_shots >= Max(2, (5 * d) \div (10 * fps))
            /\ estimated_shots <= Max(2, (12 * d) \div (10 * fps))
            /\ Len(hits) <= estimated_shots
            /\ pc = "estimated" => Len(hits) = estimated_shots
            /\ \A k \in 1..Len(hits) :
                  LET place == hit_arg[1] + (d * k) \div (estimated_shots + 1)
                  IN  /\ hits[k].frame >= hit_arg[1]
                      /\ hits[k].frame <= hit_arg[2]
                      /\ hits[k].frame >= place - 5
                      /\ hits[k].frame <= place + 5
                      /\ hits[k].time = <<hits[k].frame, fps>>
                      /\ hits[k].player =
                             IF (k - 1) % 2 = 0 THEN "Player A" ELSE "Player B"
                      /\ InBand(hits[k].x, 25, 75)
                      /\ IF hits[k].player = "Player A"
                         THEN InBand(hits[k].y, 60, 85)
                         ELSE InBand(hits[k].y, 15, 40)

\* hits of both players returned, the first held at start_frame and the
\* last at end_frame by the clamp
C22_Witness ==
    /\ pc = "estimated"
    /\ Len(hits) >= 3
    /\ hits[1].frame = hit_arg[1]
    /\ hits[Len(hits)].frame = hit_arg[2]

\* C23: every rally run_analysis has handed to classify_rally_shots carries
\* the hit points estimated for its segment, and its shots are as many as
\* those hit points and on their frames.
C23_ClassifierUsesHits ==
    pc \in {"segmented", "classified"} =>
        \A k \in 1..classified :
            /\ "hit_points" \in DOMAIN rallies[k]
            /\ Len(rallies[k].shots) = Len(rallies[k].hit_points)
            /\ \A j \in 1..Len(rallies[k].shots) :
                  rallies[k].shots[j].frame = rallies[k].hit_points[j].frame

\* C24: no run ever waits for the consumer of its notifications, and a run
\* fails only when the video could not be opened, never over a notification.
C24_NeverWaits ==
    \A t \in DOMAIN tasks :
        /\ ~tasks[t].waiting
        /\ tasks[t].wrote = "failed" => ~opened

\* C25: when the source stops yielding frames, at the end of the stream or
\* before the frame count it reported, the pass of analyze_motion ends at
\* once: it reads no further frame, and stores exactly the samples collected
\* so far.
C25_StopsWithSource ==
    /\ [](pc = "read" => frame_num <= frames)
    /\ [][(pc = "read" /\ frame_num >= frames)
          => /\ pc' = "analyzed"
             /\ motion_data' = motion_local
             /\ frame_num' = frame_num
             /\ notes' = notes]_vars

\* a source that stopped before its reported frame count, its samples kept
C25_Witness ==
    /\ pc = "analyzed"
    /\ frames < frame_count
    /\ frame_num = frames
    /\ Len(motion_data) >= 2
    /\ motion_data = motion_local

\* C26: one run of segment_rallies reads the frame source in one pass only,
\* whatever that pass returned.
C26_SinglePass == passes <= 1

\* C27: a run in whose course another run took values from the generator
\* ends with the segments the same source and seed gave the run made alone.
C27_Unaffected ==
    (run = 2 /\ pc = "done" /\ other_drawn > 0) =>
        rally_segments = first_result

\* C28: a run that has returned, on whatever path, holds no video handle.
C28_Released ==
    \A t \in DOMAIN tasks :
        tasks[t].at = "returned" => tasks[t].handles = {}

\* C29: at most one run of the session is in progress at any time.
C29_OneRun ==
    Cardinality({t \in DOMAIN tasks : Running(t)}) <= 1

\* C30: a run that has set the status to completed never sets it to failed.
C30_CompletedStays ==
    [][\A t \in DOMAIN tasks :
          tasks[t].wrote = "completed" => tasks'[t].wrote # "failed"]_vars

====
